---- MODULE Spec2Model ----
(***************************************************************************)
(* Registration / payment / fulfilment pipeline of nac-be.                 *)
(*                                                                         *)
(* The model follows src/api/v1/controllers/v1.ts (the first controller    *)
(* of the file, lines 1-336) and src/api/v1/controllers/bulk-upload.ts.    *)
(* Every handler is an async function: one action of the model is the code *)
(* that runs from the resolution of one awaited call up to the next await, *)
(* so that handlers interleave exactly at their awaits.                    *)
(***************************************************************************)
EXTENDS Integers, Sequences, FiniteSets, TLC

VARIABLES
    students,   \* the registration store: documentId -> record
    nextDoc,    \* the next documentId the store hands out
    now,        \* the clock read by new Date()
    accounts,   \* emails that have an account on the external platform
    orders,     \* gateway orders, by the draft they were created for (the order id is the draft's)
    calls,      \* handler invocations in flight, in the order they started
    started,    \* number of handler invocations so far
    last,       \* the invocation that returned or threw in the step just taken, if any
    bg,         \* background notification tasks scheduled by setImmediate
    grants,     \* history: per registration, the credit grants submitted for it
    creations,  \* history: per email, the accounts created for it
    lastDraft   \* history: per email, the draft of the last undisturbed saveDraftAndCreateOrder

vars == <<students, nextDoc, now, accounts, orders, calls, started, last, bg,
          grants, creations, lastDraft>>

(***************************************************************************)
(* Bounds of the model.                                                    *)
(***************************************************************************)
MaxCalls == 3
MaxDocs == 3
MaxRows == 1
\* how many handler invocations are in flight at once
MaxInFlight == 2

DocIds == 1..MaxDocs

Emails == {"a@x.org", "b@x.org"}

(***************************************************************************)
(* Request inputs.                                                         *)
(***************************************************************************)
RequiredFields == {"name", "email", "phone", "dob", "school_name", "grade", "section", "city"}

NoAddon == [id |-> "none", price |-> 0, priceInr |-> 0]

BasicAddon == [id |-> "basic", price |-> 9, priceInr |-> 750]

\* the add-on tiers the platform knows, and the add-ons a request may select: one per
\* tier, and one with an id that is no tier
Tiers == {"credits", "basic", "premium"}

AddonOf(id) == [BasicAddon EXCEPT !.id = id]

TierAddons == {AddonOf(id) : id \in Tiers \cup {"gold"}}

Addons == {NoAddon, BasicAddon}

\* selectedAddon ? ... : ...  (null and undefined are falsy, an object is truthy)
HasAddon(a) == a.id # "none"

RegistrationFees == {500}

\* the request's data object: the required fields it carries non-empty, and its email
DataInputs ==
    {[present |-> RequiredFields, email |-> e, is_overseas |-> FALSE] : e \in Emails}
    \cup {[present |-> RequiredFields \ {"city"}, email |-> "a@x.org", is_overseas |-> FALSE],
          [present |-> RequiredFields \ {"email"}, email |-> "", is_overseas |-> FALSE]}

\* a validation that finds nothing missing (used to test the rejection of invalid input)
MissingFieldsNone(data) == {}

\* lines 16-17: the required fields that are absent, undefined, null or empty
MissingFields(data) == RequiredFields \ data.present

(***************************************************************************)
(* Order pricing, as saveDraftAndCreateOrder computes it.                  *)
(***************************************************************************)
AddonAmount(addon, overseas) ==
    IF HasAddon(addon) THEN (IF overseas THEN addon.price ELSE addon.priceInr) ELSE 0

TotalAmount(fee, addon, overseas) == fee + AddonAmount(addon, overseas)

OrderAmount(fee, addon, overseas) == TotalAmount(fee, addon, overseas) * 100

\* a currency that ignores the flag (used to test the currency rule)
OrderCurrencyInr(overseas) == "INR"

OrderCurrency(overseas) == IF overseas THEN "USD" ELSE "INR"

(***************************************************************************)
(* The registration store.                                                 *)
(***************************************************************************)
NoDoc ==
    [exists |-> FALSE, email |-> "", is_overseas |-> FALSE,
     payment_status |-> "", publishedAt |-> 0,
     payment_id |-> "", payment_method |-> "",
     payment_verified_at |-> 0, payment_captured_at |-> 0,
     selected_addon |-> NoAddon, order_amount |-> 0, order_currency |-> "",
     razorpay_order_id |-> 0, mail_sent |-> FALSE, wa_sent |-> FALSE, createdAt |-> 0]

\* a store in which every document id resolves (used to test the handling of a
\* delivery for an unknown registration)
ExistsAlways(d) == TRUE

Exists(d) == d \in DocIds /\ students[d].exists

\* findMany({filters: {email}})
\* a lookup that never finds a registration (used to test the upsert of bulk rows)
FindNone(email) == {}

FindByEmail(email) == {d \in DocIds : students[d].exists /\ students[d].email = email}

Pending(d) == students[d].exists /\ students[d].payment_status = "pending"

Completed(d) == students[d].exists /\ students[d].payment_status = "completed"

Published(d) == students[d].exists /\ students[d].publishedAt # 0

PendingDocs(email) == {d \in FindByEmail(email) : Pending(d)}

\* existingStudents.reduce(...): the registration with the greatest createdAt, 0 if none
Latest(ds) ==
    IF ds = {} THEN 0
    ELSE CHOOSE d \in ds : \A o \in ds : students[o].createdAt <= students[d].createdAt

\* a variant that publishes the draft at once (used to test the publication invariant)
DraftDataPublished(data, addon, fee, id) ==
    [NoDoc EXCEPT !.exists = TRUE, !.email = data.email, !.is_overseas = data.is_overseas,
                  !.publishedAt = id, !.payment_status = "pending",
                  !.selected_addon = addon,
                  !.order_currency = OrderCurrency(data.is_overseas),
                  !.order_amount = OrderAmount(fee, addon, data.is_overseas),
                  !.createdAt = id]

\* the studentData of saveDraftAndCreateOrder; the store stamps createdAt
DraftData(data, addon, fee, id) ==
    [NoDoc EXCEPT !.exists = TRUE, !.email = data.email, !.is_overseas = data.is_overseas,
                  !.publishedAt = 0, !.payment_status = "pending",
                  !.selected_addon = addon,
                  !.order_currency = OrderCurrency(data.is_overseas),
                  !.order_amount = OrderAmount(fee, addon, data.is_overseas),
                  !.createdAt = id]

\* documents.update: a document deleted meanwhile is not recreated
UpdateDoc(d, rec) == IF Exists(d) THEN [students EXCEPT ![d] = rec] ELSE students

\* documents.publish
PublishDoc(d) ==
    IF Exists(d) /\ students[d].publishedAt = 0
    THEN [students EXCEPT ![d].publishedAt = now] ELSE students

(***************************************************************************)
(* Handler invocations.                                                    *)
(***************************************************************************)
\* history: the payload of the last credit grant a call posted to the platform
NoGrant == [userId |-> 0, type |-> "none", amount |-> 0, credits |-> 0]

NewCall(kind) ==
    [kind |-> kind, pc |-> "done", res |-> "",
     email |-> "", raw |-> "", addon |-> NoAddon, overseas |-> FALSE, fee |-> 0,
     doc |-> 0, snap |-> {}, order |-> 0,
     sig |-> TRUE, payId |-> "", method |-> "", amount |-> 0,
     userId |-> 0, mailSent |-> FALSE,
     found |-> FALSE, completed |-> FALSE, effects |-> FALSE,
     hadCompleted |-> FALSE, overlap |-> FALSE, prev |-> 0,
     status |-> 0, mailed |-> FALSE,
     variant |-> "", recipients |-> "", present |-> {}, params |-> "", token |-> FALSE,
     mailOut |-> "", waOut |-> "", mail |-> "false", wa |-> "false",
     total |-> 0, i |-> 0, successful |-> 0, failed |-> 0, errors |-> <<>>,
     seen |-> <<>>, grant |-> NoGrant]

NoCall == NewCall("none")

CallIds == 1..Len(calls)

CanStart == started < MaxCalls /\ Len(calls) < MaxInFlight

Remove(seq, c) == SubSeq(seq, 1, c - 1) \o SubSeq(seq, c + 1, Len(seq))

\* a variant whose catch answers 500 when the error has no status (used to test the
\* acknowledgment of webhook deliveries)
CatchStatusError(kind, errStatus) == IF errStatus # 0 THEN errStatus ELSE 500

\* the catch of a handler: ctx.throw(err.status || 500), for webhookHandler
\* ctx.throw(err.status || 200)
CatchStatus(kind, errStatus) ==
    IF errStatus # 0 THEN errStatus ELSE IF kind = "webhook" THEN 200 ELSE 500

\* the HTTP status of a handler's answer; the errors of the store, the gateway, the
\* platform and the mail service carry no status of their own
HttpStatus(kind, res) ==
    CASE kind \notin {"save", "verify", "webhook", "bulk"} -> 0
      [] res \in {"ok", "rejected"} -> 200
      [] res \in {"invalid", "mismatch"} -> CatchStatus(kind, 400)
      [] res = "notfound" -> CatchStatus(kind, 404)
      [] OTHER -> CatchStatus(kind, 0)

\* a handler that returns or throws: its outcome and its history are kept
Finish(call, res) ==
    [call EXCEPT !.pc = "done", !.res = res, !.snap = {}, !.fee = 0, !.order = 0,
                 !.userId = 0, !.mailSent = FALSE, !.status = HttpStatus(call.kind, res)]

\* the handler goes on to its next await
Goto(c, call) ==
    /\ calls' = [calls EXCEPT ![c] = call]
    /\ last' = NoCall
    /\ started' = started

\* the handler returns (or throws) with outcome res
Return(c, call, res) ==
    /\ calls' = Remove(calls, c)
    /\ last' = Finish(call, res)
    /\ started' = started

\* a handler that returns before its first await
Immediate(call, res) ==
    /\ calls' = calls
    /\ last' = Finish(call, res)
    /\ started' = started + 1

\* history: the save calls for this email that are in flight
SavesInFlight(email) ==
    {c \in CallIds : calls[c].kind = "save" /\ calls[c].email = email}

\* history: a registration of this email has just been completed
Disturb(cs, email) ==
    [c \in DOMAIN cs |->
        IF cs[c].kind = "save" /\ cs[c].email = email
        THEN [cs[c] EXCEPT !.prev = 0] ELSE cs[c]]

DisturbDraft(email) ==
    IF email \in Emails THEN [lastDraft EXCEPT ![email] = 0] ELSE lastDraft

(***************************************************************************)
(* saveDraftAndCreateOrder                                                 *)
(***************************************************************************)
\* lines 11-20: no data, or a required field missing: 400 before any await
SaveDraftInvalid(hasData, data) ==
    /\ CanStart
    /\ ~hasData \/ MissingFields(data) # {}
    /\ Immediate([NewCall("save") EXCEPT
                     !.email = data.email,
                     !.present = IF hasData THEN data.present ELSE {}], "invalid")
    /\ UNCHANGED <<students, nextDoc, now, accounts, orders, bg, grants, creations, lastDraft>>

\* a variant without the cleanup loop (used to test the draft dedup)
StalePendingKept(existing) == {}

\* which registrations the cleanup loop will delete, from the findMany snapshot
StalePending(existing) ==
    IF Latest(existing) # 0 /\ students[Latest(existing)].payment_status = "pending"
    THEN {d \in existing : students[d].payment_status = "pending"} ELSE {}

\* the guard of line 45: the latest registration of the email is completed
AlreadyRegistered(existing) ==
    Latest(existing) # 0 /\ students[Latest(existing)].payment_status = "completed"

\* lines 11-50: validation, findMany, and the branch on the latest registration
SaveDraftStart(data, addon, fee) ==
    /\ CanStart
    /\ MissingFields(data) = {}
    /\ LET existing == FindByEmail(data.email)
           others == SavesInFlight(data.email)
           base == [NewCall("save") EXCEPT
                       !.email = data.email, !.addon = addon, !.present = data.present,
                       !.overseas = data.is_overseas, !.fee = fee,
                       !.hadCompleted = (\E d \in existing : Completed(d)),
                       !.overlap = (others # {}),
                       !.prev = lastDraft[data.email]]
           marked == [c \in DOMAIN calls |->
                         IF c \in others THEN [calls[c] EXCEPT !.overlap = TRUE]
                         ELSE calls[c]]
       IN  IF AlreadyRegistered(existing)
           THEN /\ calls' = calls
                /\ last' = Finish(base, "rejected")
           ELSE /\ calls' = Append(marked,
                        [base EXCEPT !.snap = StalePending(existing),
                                     !.pc = IF StalePending(existing) # {} THEN "delete"
                                            ELSE "create"])
                /\ last' = NoCall
    /\ started' = started + 1
    /\ UNCHANGED <<students, nextDoc, now, accounts, orders, bg, grants, creations, lastDraft>>

\* lines 52-58: one iteration of the cleanup loop (the delete is awaited)
SaveDraftDelete(c) ==
    /\ calls[c].kind = "save" /\ calls[c].pc = "delete"
    /\ LET d == CHOOSE x \in calls[c].snap : \A y \in calls[c].snap : x <= y
           rest == calls[c].snap \ {d}
       IN  /\ students' = [students EXCEPT ![d] = NoDoc]
           /\ Goto(c, [calls[c] EXCEPT !.snap = rest,
                                       !.pc = IF rest = {} THEN "create" ELSE "delete"])
    /\ UNCHANGED <<nextDoc, now, accounts, orders, bg, grants, creations, lastDraft>>

\* lines 62-80: create the draft
SaveDraftCreate(c) ==
    /\ calls[c].kind = "save" /\ calls[c].pc = "create"
    /\ nextDoc <= MaxDocs
    /\ students' = [students EXCEPT ![nextDoc] =
                       DraftData([email |-> calls[c].email, is_overseas |-> calls[c].overseas],
                                 calls[c].addon, calls[c].fee, nextDoc)]
    /\ nextDoc' = nextDoc + 1
    /\ Goto(c, [calls[c] EXCEPT !.doc = nextDoc, !.pc = "order"])
    /\ UNCHANGED <<now, accounts, orders, bg, grants, creations, lastDraft>>

\* no gateway order was created for this draft
NoOrder == [id |-> 0, amount |-> 0, currency |-> ""]

\* the amount handed to razorpay.orders.create (line 92)
GatewayAmount(fee, addon, overseas) == 100

\* lines 83-100: create the gateway order; the remote call may fail
SaveDraftOrder(c) ==
    /\ calls[c].kind = "save" /\ calls[c].pc = "order"
    /\ \/ /\ orders' = [orders EXCEPT ![calls[c].doc] =
                          [id |-> calls[c].doc,
                           amount |-> GatewayAmount(calls[c].fee, calls[c].addon, calls[c].overseas),
                           currency |-> OrderCurrency(calls[c].overseas)]]
          /\ Goto(c, [calls[c] EXCEPT !.order = calls[c].doc, !.pc = "update"])
       \/ /\ orders' = orders
          /\ Return(c, calls[c], "error")
    /\ UNCHANGED <<students, nextDoc, now, accounts, bg, grants, creations, lastDraft>>

\* lines 104-124: store the order on the draft and return success
SaveDraftUpdate(c) ==
    /\ calls[c].kind = "save" /\ calls[c].pc = "update"
    /\ LET d == calls[c].doc
       IN  students' = UpdateDoc(d, [students[d] EXCEPT
                          !.razorpay_order_id = calls[c].order,
                          !.order_amount = OrderAmount(calls[c].fee, calls[c].addon, calls[c].overseas),
                          !.order_currency = OrderCurrency(calls[c].overseas)])
    /\ Return(c, calls[c], "ok")
    /\ lastDraft' = [lastDraft EXCEPT ![calls[c].email] =
                        IF calls[c].overlap THEN 0 ELSE calls[c].doc]
    /\ UNCHANGED <<nextDoc, now, accounts, orders, bg, grants, creations>>

SaveDraftSteps ==
    \/ \E c \in CallIds : SaveDraftDelete(c)
    \/ \E c \in CallIds : SaveDraftCreate(c)
    \/ \E c \in CallIds : SaveDraftOrder(c)
    \/ \E c \in CallIds : SaveDraftUpdate(c)

(***************************************************************************)
(* The external learning platform and the mail service.                    *)
(***************************************************************************)
\* the id the platform gave the account of this email
UserIdOf(email) == IF email = "a@x.org" THEN 11 ELSE 12

\* a lookup that reports every email as not registered (used to test the short-circuit
\* of provisioning)
LookupUnregistered(email) == [registered |-> FALSE, userId |-> 0]

\* isEmailRegisteredInCosmicKids: {registered, userId}
Lookup(email) ==
    IF email \in accounts THEN [registered |-> TRUE, userId |-> UserIdOf(email)]
    ELSE [registered |-> FALSE, userId |-> 0]

\* a tier table that gives every add-on the credits of the last tier (used to test
\* the credits of a grant)
CreditsFlat(addon_id) == 315

\* credits: addon_id === "credits" ? 35 : addon_id === "basic" ? 240 : 315
Credits(addon_id) == IF addon_id = "credits" THEN 35 ELSE IF addon_id = "basic" THEN 240 ELSE 315

\* addUserAddons validates its payload before it calls the platform
AddonsPayloadOk(userId, type, amount, credits) ==
    userId # 0 /\ type # "none" /\ amount # 0 /\ credits # 0

\* the addonsPayload of a call (v1.ts 311-318, bulk-upload.ts 195-202)
AddonsPayload(call) ==
    [userId |-> call.userId, type |-> call.addon.id, amount |-> call.amount \div 100,
     credits |-> Credits(call.addon.id)]

\* history: the call has posted its payload
Granted(call) == [call EXCEPT !.grant = AddonsPayload(call)]

(***************************************************************************)
(* webhookHandler                                                          *)
(***************************************************************************)
Events == {"payment.captured", "payment.failed"}

\* payment.description: of this event ("NAC25 ..."), of another product, or absent
Descriptions == {"NAC25 registration", "other", "none"}

PaymentIds == {"pay_1", "pay_2"}

IncludesNAC25(desc) == desc = "NAC25 registration"

\* line 201: body.event === 'payment.captured' && payment.description.includes('NAC25')
Matches(evt, desc) == evt = "payment.captured" /\ IncludesNAC25(desc)

\* reading .includes of an absent description throws a TypeError
DescriptionThrows(evt, desc) == evt = "payment.captured" /\ desc = "none"

\* history: the deliveries in flight for this registration
HooksInFlight(d) == {c \in CallIds : calls[c].kind = "webhook" /\ calls[c].doc = d}

\* lines 197-201, 327-333: an event that does not match returns at once; an absent
\* description makes the handler throw
WebhookIgnore(evt, desc, sig) ==
    /\ CanStart
    /\ ~Matches(evt, desc)
    /\ Immediate([NewCall("webhook") EXCEPT !.sig = sig],
                 IF DescriptionThrows(evt, desc) THEN "thrown" ELSE "ok")
    /\ UNCHANGED <<students, nextDoc, now, accounts, orders, bg, grants, creations, lastDraft>>

\* lines 197-216: a matching event: findOne by the document id of the order notes
WebhookStart(evt, desc, ref, payId, amount, sig) ==
    /\ CanStart
    /\ Matches(evt, desc)
    /\ LET others == HooksInFlight(ref)
           base == [NewCall("webhook") EXCEPT
                       !.sig = sig, !.doc = ref, !.payId = payId, !.method = "upi",
                       !.amount = amount, !.overlap = (others # {})]
           marked == [c \in DOMAIN calls |->
                         IF c \in others THEN [calls[c] EXCEPT !.overlap = TRUE]
                         ELSE calls[c]]
       IN  IF Exists(ref)
           THEN /\ calls' = Append(marked,
                        [base EXCEPT !.found = TRUE, !.email = students[ref].email,
                                     !.addon = students[ref].selected_addon,
                                     !.pc = "lookup"])
                /\ last' = NoCall
           ELSE /\ calls' = calls
                /\ last' = Finish(base, "ok")
    /\ started' = started + 1
    /\ UNCHANGED <<students, nextDoc, now, accounts, orders, bg, grants, creations, lastDraft>>

\* line 217: the account lookup, which may fail
WebhookLookup(c) ==
    /\ calls[c].kind = "webhook" /\ calls[c].pc = "lookup"
    /\ \/ Goto(c, [calls[c] EXCEPT !.effects = TRUE,
                                   !.userId = Lookup(calls[c].email).userId,
                                   !.pc = IF Lookup(calls[c].email).registered
                                          THEN "mail" ELSE "create"])
       \/ Return(c, [calls[c] EXCEPT !.effects = TRUE], "thrown")
    /\ UNCHANGED <<students, nextDoc, now, accounts, orders, bg, grants, creations, lastDraft>>

\* user_id = cosmicKidsAccount.id (line 261): the id field of the create response
IdOfCreateResponse(email, hasId) == IF hasId THEN UserIdOf(email) ELSE 0

\* lines 253-261: create the account; the platform refuses an email it already has
WebhookCreate(c) ==
    /\ calls[c].kind = "webhook" /\ calls[c].pc = "create"
    /\ \/ /\ calls[c].email \notin accounts
          /\ accounts' = accounts \cup {calls[c].email}
          /\ creations' = [creations EXCEPT ![calls[c].email] = @ + 1]
          /\ \E hasId \in BOOLEAN :
                Goto(c, [calls[c] EXCEPT !.userId = IdOfCreateResponse(calls[c].email, hasId),
                                         !.pc = "mail"])
       \/ /\ UNCHANGED <<accounts, creations>>
          /\ Return(c, calls[c], "thrown")
    /\ UNCHANGED <<students, nextDoc, now, orders, bg, grants, lastDraft>>

\* lines 224-250, 264-289: the mail batch; mail_sent only when the reply says "OK"
WebhookMail(c) ==
    /\ calls[c].kind = "webhook" /\ calls[c].pc = "mail"
    /\ \/ \E message \in {"OK", "failed"} :
             Goto(c, [calls[c] EXCEPT !.mailSent = (message = "OK"), !.mailed = TRUE,
                                      !.pc = "update"])
       \/ Return(c, [calls[c] EXCEPT !.mailed = TRUE], "thrown")
    /\ UNCHANGED <<students, nextDoc, now, accounts, orders, bg, grants, creations, lastDraft>>

\* the data of the completing update (lines 295-303)
WebhookData(rec, payId, method, mailSent, t) ==
    [rec EXCEPT !.payment_id = payId, !.payment_status = "completed",
                !.payment_method = method, !.publishedAt = t,
                !.payment_verified_at = t, !.payment_captured_at = t,
                !.mail_sent = mailSent]

\* lines 293-304: the completing update
WebhookUpdate(c) ==
    /\ calls[c].kind = "webhook" /\ calls[c].pc = "update"
    /\ LET d == calls[c].doc
       IN  students' = UpdateDoc(d, WebhookData(students[d], calls[c].payId, calls[c].method,
                                                calls[c].mailSent, now))
    /\ now' = now + 1
    /\ calls' = [Disturb(calls, calls[c].email) EXCEPT ![c].completed = TRUE, ![c].pc = "publish"]
    /\ last' = NoCall
    /\ started' = started
    /\ lastDraft' = DisturbDraft(calls[c].email)
    /\ UNCHANGED <<nextDoc, accounts, orders, bg, grants, creations>>

\* lines 306-321: publish, then the guard of the credit grant
WebhookPublish(c) ==
    /\ calls[c].kind = "webhook" /\ calls[c].pc = "publish"
    /\ students' = PublishDoc(calls[c].doc)
    /\ IF calls[c].userId # 0 /\ HasAddon(calls[c].addon)
       THEN Goto(c, [calls[c] EXCEPT !.pc = "addons"])
       ELSE Return(c, calls[c], "ok")
    /\ UNCHANGED <<nextDoc, now, accounts, orders, bg, grants, creations, lastDraft>>

\* lines 311-326: the credit grant, which may be refused or fail
WebhookAddons(c) ==
    /\ calls[c].kind = "webhook" /\ calls[c].pc = "addons"
    /\ LET ok == AddonsPayloadOk(calls[c].userId, calls[c].addon.id, calls[c].amount \div 100,
                                 Credits(calls[c].addon.id))
       IN  \/ /\ ok
              /\ grants' = [grants EXCEPT ![calls[c].doc] = @ + 1]
              /\ \/ Return(c, Granted(calls[c]), "ok")
                 \/ Return(c, Granted(calls[c]), "thrown")
           \/ /\ ~ok
              /\ grants' = grants
              /\ Return(c, calls[c], "thrown")
    /\ UNCHANGED <<students, nextDoc, now, accounts, orders, bg, creations, lastDraft>>

WebhookSteps ==
    \/ \E c \in CallIds : WebhookLookup(c)
    \/ \E c \in CallIds : WebhookCreate(c)
    \/ \E c \in CallIds : WebhookMail(c)
    \/ \E c \in CallIds : WebhookUpdate(c)
    \/ \E c \in CallIds : WebhookPublish(c)
    \/ \E c \in CallIds : WebhookAddons(c)

EventAmounts == {100}

(***************************************************************************)
(* verifyPaymentAndPublish                                                 *)
(***************************************************************************)
\* HMAC-SHA256 of orderId|paymentId under the key secret: equal exactly for equal inputs
Hmac(orderId, paymentId) == [order |-> orderId, payment |-> paymentId]

\* a signature made without the secret, and no signature at all
Forged == [order |-> 0 - 1, payment |-> "forged"]

NoSignature == [order |-> 0, payment |-> ""]

\* line 142: a parameter of the request is missing
MissingParams(paymentId, orderId, signature, ref) ==
    paymentId = "" \/ orderId = 0 \/ signature = NoSignature \/ ref = 0

\* history: the signature of a request was made with the secret for its order and payment
Genuine(paymentId, orderId, signature) == signature = Hmac(orderId, paymentId)

\* a variant that accepts every signature (used to test the rejection of forged ones)
SignatureAny(paymentId, orderId, signature) == TRUE

\* lines 147-155
SignatureOk(paymentId, orderId, signature) == signature = Hmac(orderId, paymentId)

\* lines 166-168: the amount the handler expects the draft to carry
ExpectedRegistrationFee(overseas) == IF overseas THEN 12 ELSE 500

ExpectedTotalAmount(overseas, addon) ==
    (ExpectedRegistrationFee(overseas) + AddonAmount(addon, overseas)) * 100

\* lines 142-155: rejected with 400 before any await
VerifyInvalid(paymentId, orderId, signature, ref) ==
    /\ CanStart
    /\ MissingParams(paymentId, orderId, signature, ref)
       \/ ~SignatureOk(paymentId, orderId, signature)
    /\ Immediate([NewCall("verify") EXCEPT !.doc = ref, !.payId = paymentId,
                     !.sig = Genuine(paymentId, orderId, signature)], "invalid")
    /\ UNCHANGED <<students, nextDoc, now, accounts, orders, bg, grants, creations, lastDraft>>

\* lines 142-173: the checks pass, findOne, and the amount check
VerifyStart(paymentId, orderId, signature, ref, addon) ==
    /\ CanStart
    /\ ~MissingParams(paymentId, orderId, signature, ref)
    /\ SignatureOk(paymentId, orderId, signature)
    /\ LET base == [NewCall("verify") EXCEPT !.doc = ref, !.payId = paymentId, !.addon = addon,
                                             !.sig = Genuine(paymentId, orderId, signature)]
       IN  IF ~Exists(ref)
           THEN /\ calls' = calls
                /\ last' = Finish(base, "notfound")
           ELSE IF students[ref].order_amount # ExpectedTotalAmount(students[ref].is_overseas, addon)
           THEN /\ calls' = calls
                /\ last' = Finish([base EXCEPT !.found = TRUE], "mismatch")
           ELSE /\ calls' = Append(calls, [base EXCEPT !.found = TRUE,
                                                       !.email = students[ref].email,
                                                       !.pc = "update"])
                /\ last' = NoCall
    /\ started' = started + 1
    /\ UNCHANGED <<students, nextDoc, now, accounts, orders, bg, grants, creations, lastDraft>>

\* an update that puts the registration back to pending (used to test the monotony
\* of payment_status)
VerifyDataPending(rec, addon, paymentId, t) ==
    [rec EXCEPT !.payment_status = "pending", !.selected_addon = addon,
                !.payment_id = paymentId, !.publishedAt = t, !.payment_verified_at = t]

\* the data of the update (lines 177-183)
VerifyData(rec, addon, paymentId, t) ==
    [rec EXCEPT !.payment_status = "completed", !.selected_addon = addon,
                !.payment_id = paymentId, !.publishedAt = t, !.payment_verified_at = t]

\* lines 175-189
VerifyUpdate(c) ==
    /\ calls[c].kind = "verify" /\ calls[c].pc = "update"
    /\ LET d == calls[c].doc
       IN  students' = UpdateDoc(d, VerifyData(students[d], calls[c].addon, calls[c].payId, now))
    /\ now' = now + 1
    /\ calls' = Remove(Disturb(calls, calls[c].email), c)
    /\ last' = Finish([calls[c] EXCEPT !.completed = TRUE], "ok")
    /\ started' = started
    /\ lastDraft' = DisturbDraft(calls[c].email)
    /\ UNCHANGED <<nextDoc, accounts, orders, bg, grants, creations>>

VerifySteps == \E c \in CallIds : VerifyUpdate(c)

(***************************************************************************)
(* bulkUpload                                                              *)
(***************************************************************************)
\* a row is valid when name, email, phone, school, grade, section, payment_id are set
RowValid(row) == row.email # "" /\ row.complete

\* line 106: row.email.trim().toLowerCase()
Normalise(email) == IF email = "A@x.org" THEN "a@x.org" ELSE email

\* the studentData of a row, written over the existing record or a new one
BulkData(rec, row, t) ==
    [rec EXCEPT !.exists = TRUE, !.email = row.email, !.is_overseas = FALSE,
                !.payment_id = row.payment_id, !.payment_status = "completed",
                !.publishedAt = t, !.payment_verified_at = t, !.payment_captured_at = t,
                !.payment_method = "bulk_upload", !.mail_sent = FALSE, !.wa_sent = FALSE,
                !.selected_addon = IF row.addon_id # "none"
                                   THEN [id |-> row.addon_id, price |-> 0, priceInr |-> 0]
                                   ELSE rec.selected_addon]

\* lines 69-87: an empty file is refused, otherwise the row loop starts
BulkStart(total) ==
    /\ CanStart
    /\ IF total = 0
       THEN /\ calls' = calls
            /\ last' = Finish(NewCall("bulk"), "invalid")
       ELSE /\ calls' = Append(calls, [NewCall("bulk") EXCEPT !.total = total, !.pc = "row"])
            /\ last' = NoCall
    /\ started' = started + 1
    /\ UNCHANGED <<students, nextDoc, now, accounts, orders, bg, grants, creations, lastDraft>>

\* the per-row locals are reset for the next row
NextRow(call) ==
    [call EXCEPT !.i = @ + 1, !.doc = 0, !.email = "", !.raw = "", !.addon = NoAddon,
                 !.userId = 0,
                 !.amount = 0, !.payId = "", !.found = FALSE, !.pc = "row"]

\* history: the rows the loop has been through, with their email as uploaded
Seen(call, ok) == Append(call.seen, [email |-> call.raw, ok |-> ok])

\* a loop whose first failing row ends the upload (used to test the isolation of rows)
RowFailedAborts(c, call) ==
    LET after == NextRow([call EXCEPT !.failed = @ + 1, !.seen = Seen(call, FALSE),
                                      !.errors = Append(@, [row |-> call.i + 2,
                                                            email |-> IF call.raw = "" THEN "N/A"
                                                                      ELSE call.raw])])
    IN  /\ bg' = bg
        /\ Return(c, after, "ok")

\* lines 259-267: the catch of a row
RowFailed(c, call) ==
    LET after == NextRow([call EXCEPT !.failed = @ + 1, !.seen = Seen(call, FALSE),
                                      !.errors = Append(@, [row |-> call.i + 2,
                                                            email |-> IF call.raw = "" THEN "N/A"
                                                                      ELSE call.raw])])
    IN  /\ bg' = bg
        /\ IF after.i = after.total THEN Return(c, after, "ok") ELSE Goto(c, after)

\* lines 14-18: the own properties of templateMap
TemplateMap ==
    [credits |-> "nac_spacetopia_cre", basic |-> "nac_spacetopia_protostar",
     premium |-> "nac_spacetopia_supernova"]

\* property names every object inherits from Object.prototype
InheritedKeys == {"constructor", "toString"}

\* templateMap[addon_id]: an own property, else an inherited one (a function), else
\* undefined; a null or undefined addon_id reads the key "null" or "undefined"
TemplateMapGet(addon_id) ==
    IF addon_id \in DOMAIN TemplateMap THEN TemplateMap[addon_id]
    ELSE IF addon_id \in InheritedKeys THEN "function" ELSE "undefined"

\* lines 13-21: templateMap[addon_id] || 'nac_spacetopia_no_cre'
GetWhatsAppTemplate(addon_id) ==
    IF TemplateMapGet(addon_id) = "undefined" THEN "nac_spacetopia_no_cre"
    ELSE TemplateMapGet(addon_id)

\* the task setImmediate schedules for a row (lines 209-256)
NotifyTask(call) == [doc |-> call.doc, addon_id |-> call.addon.id, pc |-> "send",
                     template |-> "", mail |-> FALSE, wa |-> FALSE]

\* lines 208-258: schedule the notification, count the row, go to the next row
RowSucceeded(c, call) ==
    LET after == NextRow([call EXCEPT !.successful = @ + 1, !.seen = Seen(call, TRUE)])
    IN  /\ bg' = Append(bg, NotifyTask(call))
        /\ IF after.i = after.total THEN Return(c, after, "ok") ELSE Goto(c, after)

\* lines 91-142: validate the row, then findMany by its email
BulkRow(c, row) ==
    /\ calls[c].kind = "bulk" /\ calls[c].pc = "row"
    /\ IF ~RowValid(row)
       THEN RowFailed(c, [calls[c] EXCEPT !.raw = row.email])
       ELSE /\ bg' = bg
            /\ \E d \in (IF FindByEmail(Normalise(row.email)) = {} THEN {0}
                         ELSE FindByEmail(Normalise(row.email))) :
                  Goto(c, [calls[c] EXCEPT !.email = Normalise(row.email), !.raw = row.email,
                                           !.doc = d, !.found = (d # 0),
                                           !.addon = [NoAddon EXCEPT !.id = row.addon_id],
                                           !.payId = row.payment_id, !.pc = "upsert"])
    /\ UNCHANGED <<students, nextDoc, now, accounts, orders, grants, creations, lastDraft>>

\* the row of a call, rebuilt from its locals
RowOf(call) == [email |-> call.email, complete |-> TRUE, addon_id |-> call.addon.id,
                payment_id |-> call.payId]

\* lines 144-166: update the existing registration or create one
BulkUpsert(c) ==
    /\ calls[c].kind = "bulk" /\ calls[c].pc = "upsert"
    /\ LET call == calls[c]
           d == IF call.found THEN call.doc ELSE nextDoc
       IN  IF call.found /\ ~Exists(d)
           THEN \* update returned null: reading student.documentId throws
                /\ RowFailed(c, call)
                /\ UNCHANGED <<students, nextDoc, now, lastDraft>>
           ELSE /\ ~call.found => nextDoc <= MaxDocs
                /\ students' = [students EXCEPT ![d] =
                      BulkData(IF call.found THEN students[d]
                               ELSE [NoDoc EXCEPT !.createdAt = d], RowOf(call), now)]
                /\ nextDoc' = IF call.found THEN nextDoc ELSE nextDoc + 1
                /\ now' = now + 1
                /\ calls' = [Disturb(calls, call.email) EXCEPT ![c] =
                      [call EXCEPT !.doc = d, !.completed = TRUE,
                                   !.addon = IF call.addon.id # "none" THEN call.addon
                                             ELSE students'[d].selected_addon,
                                   !.amount = students'[d].order_amount,
                                   !.pc = "publish"]]
                /\ last' = NoCall
                /\ started' = started
                /\ bg' = bg
                /\ lastDraft' = DisturbDraft(call.email)
    /\ UNCHANGED <<accounts, orders, grants, creations>>

\* lines 160-162
BulkPublish(c) ==
    /\ calls[c].kind = "bulk" /\ calls[c].pc = "publish"
    /\ students' = PublishDoc(calls[c].doc)
    /\ Goto(c, [calls[c] EXCEPT !.pc = "lookup"])
    /\ UNCHANGED <<nextDoc, now, accounts, orders, bg, grants, creations, lastDraft>>

\* line 191: the guard of the credit grant
AfterProvision(c, call) ==
    IF call.userId # 0 /\ HasAddon(call.addon)
    THEN bg' = bg /\ Goto(c, [call EXCEPT !.pc = "addons"])
    ELSE RowSucceeded(c, call)

\* lines 170-176: the account lookup, which may fail
BulkLookup(c) ==
    /\ calls[c].kind = "bulk" /\ calls[c].pc = "lookup"
    /\ \/ IF Lookup(calls[c].email).registered
          THEN AfterProvision(c, [calls[c] EXCEPT !.userId = Lookup(calls[c].email).userId])
          ELSE bg' = bg /\ Goto(c, [calls[c] EXCEPT !.pc = "create"])
       \/ RowFailed(c, calls[c])
    /\ UNCHANGED <<students, nextDoc, now, accounts, orders, grants, creations, lastDraft>>

\* lines 177-182: create the account
BulkCreate(c) ==
    /\ calls[c].kind = "bulk" /\ calls[c].pc = "create"
    /\ \/ /\ calls[c].email \notin accounts
          /\ accounts' = accounts \cup {calls[c].email}
          /\ creations' = [creations EXCEPT ![calls[c].email] = @ + 1]
          /\ bg' = bg
          /\ Goto(c, [calls[c] EXCEPT !.pc = "recheck"])
       \/ /\ UNCHANGED <<accounts, creations>>
          /\ RowFailed(c, calls[c])
    /\ UNCHANGED <<students, nextDoc, now, orders, grants, lastDraft>>

\* lines 184-185: the lookup is run again for the id
BulkRecheck(c) ==
    /\ calls[c].kind = "bulk" /\ calls[c].pc = "recheck"
    /\ \/ AfterProvision(c, [calls[c] EXCEPT !.userId = Lookup(calls[c].email).userId])
       \/ RowFailed(c, calls[c])
    /\ UNCHANGED <<students, nextDoc, now, accounts, orders, grants, creations, lastDraft>>

\* lines 191-206: the credit grant, which may be refused or fail
BulkAddons(c) ==
    /\ calls[c].kind = "bulk" /\ calls[c].pc = "addons"
    /\ LET ok == AddonsPayloadOk(calls[c].userId, calls[c].addon.id, calls[c].amount \div 100,
                                 Credits(calls[c].addon.id))
       IN  \/ /\ ok
              /\ grants' = [grants EXCEPT ![calls[c].doc] = @ + 1]
              /\ \/ RowSucceeded(c, Granted(calls[c]))
                 \/ RowFailed(c, Granted(calls[c]))
           \/ /\ ~ok
              /\ grants' = grants
              /\ RowFailed(c, calls[c])
    /\ UNCHANGED <<students, nextDoc, now, accounts, orders, creations, lastDraft>>

BulkSteps ==
    \/ \E c \in CallIds : BulkUpsert(c)
    \/ \E c \in CallIds : BulkPublish(c)
    \/ \E c \in CallIds : BulkLookup(c)
    \/ \E c \in CallIds : BulkCreate(c)
    \/ \E c \in CallIds : BulkRecheck(c)
    \/ \E c \in CallIds : BulkAddons(c)

(***************************************************************************)
(* The background notification task of a bulk row                          *)
(***************************************************************************)
BgIds == 1..Len(bg)

\* lines 210-228, 242-243: sendRegistrationNotifications resolves, or the task's
\* catch takes over with both flags false
BgSend(b, mail, wa, thrown) ==
    /\ bg[b].pc = "send"
    /\ bg' = [bg EXCEPT ![b] = [@ EXCEPT !.template = GetWhatsAppTemplate(bg[b].addon_id),
                                         !.mail = mail /\ ~thrown, !.wa = wa /\ ~thrown,
                                         !.pc = "update"]]
    /\ last' = NoCall
    /\ UNCHANGED <<students, nextDoc, now, accounts, orders, calls, started,
                   grants, creations, lastDraft>>

\* the data of the flag update (lines 233-236, 246-249)
FlagData(rec, mail, wa) == [rec EXCEPT !.mail_sent = mail, !.wa_sent = wa]

\* lines 231-237, 244-250
BgUpdate(b) ==
    /\ bg[b].pc = "update"
    /\ students' = UpdateDoc(bg[b].doc, FlagData(students[bg[b].doc], bg[b].mail, bg[b].wa))
    /\ bg' = [bg EXCEPT ![b].pc = "publish"]
    /\ last' = NoCall
    /\ UNCHANGED <<nextDoc, now, accounts, orders, calls, started, grants, creations, lastDraft>>

\* a task that starts over after publishing (used to test that a task ends)
BgPublishRetry(b) ==
    /\ bg[b].pc = "publish"
    /\ students' = PublishDoc(bg[b].doc)
    /\ bg' = [bg EXCEPT ![b].pc = "send"]
    /\ last' = NoCall
    /\ UNCHANGED <<nextDoc, now, accounts, orders, calls, started, grants, creations, lastDraft>>

\* lines 239-241, 252-254
BgPublish(b) ==
    /\ bg[b].pc = "publish"
    /\ students' = PublishDoc(bg[b].doc)
    /\ bg' = Remove(bg, b)
    /\ last' = NoCall
    /\ UNCHANGED <<nextDoc, now, accounts, orders, calls, started, grants, creations, lastDraft>>

BgSteps ==
    \/ \E b \in BgIds, mail \in BOOLEAN, wa \in BOOLEAN, thrown \in BOOLEAN :
          BgSend(b, mail, wa, thrown)
    \/ \E b \in BgIds : BgUpdate(b)
    \/ \E b \in BgIds : BgPublish(b)

(***************************************************************************)
(* Requests, and the specifications                                        *)
(***************************************************************************)
\* the rows of an uploaded file
Rows(E) ==
    {[email |-> e, complete |-> TRUE, addon_id |-> a, payment_id |-> "bulk_1"] :
        e \in E, a \in {"none", "basic"}}
    \cup {[email |-> e, complete |-> FALSE, addon_id |-> "none", payment_id |-> ""] : e \in E}

\* the signatures a verify request may carry for an order and a payment
Signatures(orderId, paymentId) == {Hmac(orderId, paymentId), Forged, NoSignature}

\* a request arrives: D save bodies, A addons, R document ids, P payment ids,
\* S whether a webhook carries a valid signature, E the emails of uploaded rows
SaveRequest(D, A) ==
    \/ \E data \in D : SaveDraftInvalid(TRUE, data)
    \/ \E data \in D, addon \in A, fee \in RegistrationFees : SaveDraftStart(data, addon, fee)

WebhookRequest(R, P, S) ==
    \/ \E evt \in Events, desc \in Descriptions, sig \in S : WebhookIgnore(evt, desc, sig)
    \/ \E evt \in Events, desc \in Descriptions, ref \in R, payId \in P,
          amount \in EventAmounts, sig \in S :
          WebhookStart(evt, desc, ref, payId, amount, sig)

VerifyRequest(A, R, P) ==
    \/ \E payId \in P, ref \in R : \E signature \in Signatures(ref, payId) :
          VerifyInvalid(payId, ref, signature, ref)
    \/ \E payId \in P, ref \in R, addon \in A : \E signature \in Signatures(ref, payId) :
          VerifyStart(payId, ref, signature, ref, addon)

\* a file of at most N rows is uploaded
BulkRequest(N) == \E total \in 0..N : BulkStart(total)

BulkRows(E) == \E c \in CallIds, row \in Rows(E) : BulkRow(c, row)

Steps == SaveDraftSteps \/ WebhookSteps \/ VerifySteps \/ BulkSteps \/ BgSteps

Init ==
    /\ students = [d \in DocIds |-> NoDoc]
    /\ nextDoc = 1
    /\ now = 1
    /\ accounts = {}
    /\ orders = [d \in DocIds |-> NoOrder]
    /\ calls = <<>>
    /\ started = 0
    /\ last = NoCall
    /\ bg = <<>>
    /\ grants = [d \in DocIds |-> 0]
    /\ creations = [e \in Emails |-> 0]
    /\ lastDraft = [e \in Emails |-> 0]

\* the requests of one applicant, handled concurrently
OneEmail == {"a@x.org"}

OneData == {d \in DataInputs : d.email = "a@x.org"}

Next ==
    \/ SaveRequest(OneData, {BasicAddon})
    \/ WebhookRequest({1}, {"pay_1"}, BOOLEAN)
    \/ VerifyRequest(Addons, {1}, {"pay_2"})
    \/ BulkRequest(MaxRows)
    \/ BulkRows(OneEmail)
    \/ Steps

Spec == Init /\ [][Next]_vars


\* the applicant may already have an account on the platform
InitWebhook ==
    /\ students = [d \in DocIds |-> NoDoc]
    /\ nextDoc = 1
    /\ now = 1
    /\ accounts \in SUBSET Emails
    /\ orders = [d \in DocIds |-> NoOrder]
    /\ calls = <<>>
    /\ started = 0
    /\ last = NoCall
    /\ bg = <<>>
    /\ grants = [d \in DocIds |-> 0]
    /\ creations = [e \in Emails |-> 0]
    /\ lastDraft = [e \in Emails |-> 0]

\* no handler is in flight
Idle == calls = <<>>

\* one registration is drafted, then the gateway delivers the same payment-captured
\* event for it again and again, each delivery after the previous one has returned
TheEvent ==
    [event |-> "payment.captured", description |-> "NAC25 registration",
     student_document_id |-> 1, payment_id |-> "pay_1", amount |-> 100]

Delivery ==
    WebhookStart(TheEvent.event, TheEvent.description, TheEvent.student_document_id,
                 TheEvent.payment_id, TheEvent.amount, TRUE)

NextWebhook ==
    \/ started = 0 /\ \E data \in DataInputs, addon \in Addons, fee \in RegistrationFees :
                          SaveDraftStart(data, addon, fee)
    \/ started > 0 /\ Idle /\ Delivery
    \/ \E c \in CallIds : SaveDraftCreate(c)
    \/ \E c \in CallIds : SaveDraftOrder(c)
    \/ \E c \in CallIds : SaveDraftUpdate(c)
    \/ WebhookSteps

SpecWebhook == InitWebhook /\ [][NextWebhook]_vars

\* up to MaxUploads files of up to MaxBulkRows rows are uploaded one after the other,
\* each after the notification tasks of the previous one have ended; the applicant
\* a@x.org may have left a pending draft, and applicants may have a platform account
MaxBulkRows == 3

MaxUploads == 1

RowEmails == {"a@x.org", "A@x.org", "b@x.org"}

\* the rows of a file: complete ones, ones that lack a field, one that lacks its email
FileRows ==
    Rows(RowEmails)
    \cup {[email |-> "", complete |-> TRUE, addon_id |-> "none", payment_id |-> "bulk_1"]}

\* the draft a saveDraftAndCreateOrder with the basic add-on left as document 1
DraftOf(email) ==
    DraftData([present |-> RequiredFields, email |-> email, is_overseas |-> FALSE],
              BasicAddon, 500, 1)

InitBulk ==
    /\ \E drafted \in BOOLEAN :
          /\ students = [d \in DocIds |-> IF drafted /\ d = 1 THEN DraftOf("a@x.org") ELSE NoDoc]
          /\ nextDoc = IF drafted THEN 2 ELSE 1
          /\ now = IF drafted THEN 2 ELSE 1
    /\ accounts \in SUBSET Emails
    /\ orders = [d \in DocIds |-> NoOrder]
    /\ calls = <<>>
    /\ started = 0
    /\ last = NoCall
    /\ bg = <<>>
    /\ grants = [d \in DocIds |-> 0]
    /\ creations = [e \in Emails |-> 0]
    /\ lastDraft = [e \in Emails |-> 0]

\* the notification tasks are followed once the upload has answered
NextBulk ==
    \/ Idle /\ bg = <<>> /\ started < MaxUploads /\ BulkRequest(MaxBulkRows)
    \/ \E c \in CallIds, row \in FileRows : BulkRow(c, row)
    \/ BulkSteps
    \/ Idle /\ BgSteps

SpecBulk == InitBulk /\ [][NextBulk]_vars

\* the requests about one applicant, each after the previous one has answered: a draft
\* with any add-on, deliveries of any event for registration 1, uploads of one row
ProvisionRows ==
    {[email |-> "a@x.org", complete |-> TRUE, addon_id |-> a, payment_id |-> "bulk_1"] :
        a \in {"none", "gold", "constructor"} \cup Tiers}

InitProvision ==
    /\ students = [d \in DocIds |-> NoDoc]
    /\ nextDoc = 1
    /\ now = 1
    /\ accounts \in SUBSET OneEmail
    /\ orders = [d \in DocIds |-> NoOrder]
    /\ calls = <<>>
    /\ started = 0
    /\ last = NoCall
    /\ bg = <<>>
    /\ grants = [d \in DocIds |-> 0]
    /\ creations = [e \in Emails |-> 0]
    /\ lastDraft = [e \in Emails |-> 0]

NextProvision ==
    \/ Idle /\ \E data \in OneData, addon \in Addons \cup TierAddons, fee \in RegistrationFees :
                  SaveDraftStart(data, addon, fee)
    \/ Idle /\ WebhookRequest({1}, {"pay_1"}, {TRUE})
    \/ Idle /\ BulkStart(1)
    \/ \E c \in CallIds, row \in ProvisionRows : BulkRow(c, row)
    \/ SaveDraftSteps
    \/ WebhookSteps
    \/ BulkSteps
    \/ BgSteps

SpecProvision == InitProvision /\ [][NextProvision]_vars

\* the drafts and verifications of one applicant, each request after the previous one
\* has answered: either overseas flag, the domestic and the overseas fee, no add-on, two
\* add-ons of one price and one of another price
DraftFees == {500, 12}

DearAddon == [id |-> "premium", price |-> 19, priceInr |-> 1500]

DraftAddons == {NoAddon, BasicAddon, AddonOf("credits"), DearAddon}

DraftInputs ==
    {[present |-> RequiredFields, email |-> "a@x.org", is_overseas |-> o] : o \in BOOLEAN}
    \cup {d \in DataInputs : d.present # RequiredFields}

NextDraft ==
    \/ Idle /\ \E hasData \in BOOLEAN, data \in DraftInputs : SaveDraftInvalid(hasData, data)
    \/ Idle /\ \E data \in DraftInputs, addon \in DraftAddons, fee \in DraftFees :
                  SaveDraftStart(data, addon, fee)
    \/ Idle /\ VerifyRequest(DraftAddons, {1, 2}, {"pay_2"})
    \/ SaveDraftSteps
    \/ VerifySteps

SpecDraft == Init /\ [][NextDraft]_vars

\* One upload whose background tasks run while the row loop is still going: a callback
\* scheduled with setImmediate runs at the next turn of the event loop, and every call
\* it awaits settles, so a task that can take a step eventually takes one.
MaxTaskRows == 2

NextTasks ==
    \/ started < MaxUploads /\ BulkRequest(MaxTaskRows)
    \/ BulkRows(OneEmail)
    \/ BulkSteps
    \/ BgSteps

SpecTasks == InitBulk /\ [][NextTasks]_vars /\ WF_vars(BgSteps)

(***************************************************************************)
(* The notification service                                                *)
(***************************************************************************)
\* how a remote POST ends: a 2xx response, another response, or no response
RemoteOutcomes == {"2xx", "non2xx", "error"}

\* the fields of the student that the notifications read
StudentFields == {"email", "name", "grade", "phone"}

\* a recipient list: empty, with a recipient that lacks a field, or well-formed
RecipientLists == {"none", "invalid", "valid"}

\* whatsappParams: absent, without a templateId, or complete
ParamKinds == {"none", "partial", "full"}

\* the two copies of the service
Variants == {"service", "utils"}

\* how a call ends: it throws, or it returns a value
Thrown == [thrown |-> TRUE, value |-> "undefined"]

Value(v) == [thrown |-> FALSE, value |-> v]

\* sendZeptoMailBatch of the service: the success field of what it returns
ServiceMailBatch(recipients, outcome) ==
    IF recipients # "valid" THEN Thrown
    ELSE IF outcome = "2xx" THEN Value("true") ELSE Value("false")

\* sendZeptoMailBatch of utils/notifications: it returns response.data, which has no
\* success field, and rethrows a failed request
UtilsMailBatch(recipients, outcome) ==
    IF recipients = "none" THEN Thrown
    ELSE IF outcome = "2xx" THEN Value("undefined") ELSE Thrown

\* sendZeptoMailBatch is called on its own
MailBatch(variant, recipients, outcome) ==
    /\ CanStart
    /\ LET r == IF variant = "service" THEN ServiceMailBatch(recipients, outcome)
                ELSE UtilsMailBatch(recipients, outcome)
       IN  Immediate([NewCall("mailbatch") EXCEPT !.variant = variant,
                         !.recipients = recipients, !.mailOut = outcome, !.mail = r.value],
                     IF r.thrown THEN "thrown" ELSE "ok")
    /\ UNCHANGED <<students, nextDoc, now, accounts, orders, bg, grants, creations, lastDraft>>

\* sendWhatsAppMessage of the service: the request is sent whatever the auth token is
ServiceWhatsAppMessage(params, phone, outcome) ==
    IF params # "full" \/ ~phone THEN Thrown
    ELSE IF outcome = "2xx" THEN Value("data") ELSE Thrown

\* sendWhatsAppMessage of utils/notifications: without an auth token nothing is sent
\* and {success: false} is returned
UtilsWhatsAppMessage(params, phone, token, outcome) ==
    IF params # "full" \/ ~phone THEN Thrown
    ELSE IF ~token THEN Value("unsent")
    ELSE IF outcome = "2xx" THEN Value("data") ELSE Thrown

\* a variant of the helpers' catch that lets the error through (used to test that
\* the notification service never throws)
Rethrown(fallback) == Thrown

\* the catch of the notification helpers: the error is logged, the flag keeps its value
Swallowed(fallback) == Value(fallback)

\* _sendEmailNotification: the value of result.mail_sent afterwards
ServiceEmailNotification(present, outcome) ==
    IF ~({"email", "name", "grade"} \subseteq present) THEN Value("false")
    ELSE LET r == ServiceMailBatch("valid", outcome)
         IN  IF r.thrown THEN Swallowed("false") ELSE Value(r.value)

\* _sendWhatsAppNotification: the value of result.wa_sent afterwards
ServiceWhatsAppNotification(present, params, outcome) ==
    IF params = "none" THEN Value("false")
    ELSE IF "phone" \notin present THEN Value("false")
    ELSE LET r == ServiceWhatsAppMessage(params, TRUE, outcome)
         IN  IF r.thrown THEN Swallowed("false") ELSE Value("true")

\* sendWhatsAppNotification of utils/notifications: what it returns
UtilsWhatsAppNotification(present, params, token, outcome) ==
    IF params = "none" THEN Value("false")
    ELSE IF "phone" \notin present THEN Value("false")
    ELSE LET r == UtilsWhatsAppMessage(params, TRUE, token, outcome)
         IN  IF r.thrown THEN Swallowed("false") ELSE Value("true")

\* sendRegistrationNotifications: the email helper, then the messaging helper
SendRegistrationNotifications(present, params, mailOutcome, waOutcome) ==
    LET m == ServiceEmailNotification(present, mailOutcome)
        w == ServiceWhatsAppNotification(present, params, waOutcome)
    IN  [thrown |-> m.thrown \/ w.thrown, mail_sent |-> m.value, wa_sent |-> w.value]

\* sendRegistrationNotifications is called for a student
Notify(present, params, mailOutcome, waOutcome) ==
    /\ CanStart
    /\ LET r == SendRegistrationNotifications(present, params, mailOutcome, waOutcome)
       IN  Immediate([NewCall("notify") EXCEPT !.variant = "service", !.present = present,
                         !.params = params, !.mailOut = mailOutcome, !.waOut = waOutcome,
                         !.mail = r.mail_sent, !.wa = r.wa_sent],
                     IF r.thrown THEN "thrown" ELSE "ok")
    /\ UNCHANGED <<students, nextDoc, now, accounts, orders, bg, grants, creations, lastDraft>>

\* the messaging notification is called on its own, with the integration configured
\* (an auth token is set) or not
WhatsAppNotify(variant, present, params, token, outcome) ==
    /\ CanStart
    /\ LET r == IF variant = "service" THEN ServiceWhatsAppNotification(present, params, outcome)
                ELSE UtilsWhatsAppNotification(present, params, token, outcome)
       IN  Immediate([NewCall("wa") EXCEPT !.variant = variant, !.present = present,
                         !.params = params, !.token = token, !.waOut = outcome,
                         !.wa = r.value],
                     IF r.thrown THEN "thrown" ELSE "ok")
    /\ UNCHANGED <<students, nextDoc, now, accounts, orders, bg, grants, creations, lastDraft>>

NextNotify ==
    \/ \E variant \in Variants, recipients \in RecipientLists, outcome \in RemoteOutcomes :
          MailBatch(variant, recipients, outcome)
    \/ \E present \in SUBSET StudentFields, params \in ParamKinds,
          mailOutcome \in RemoteOutcomes, waOutcome \in RemoteOutcomes :
          Notify(present, params, mailOutcome, waOutcome)
    \/ \E variant \in Variants, present \in SUBSET StudentFields, params \in ParamKinds,
          token \in BOOLEAN, outcome \in RemoteOutcomes :
          WhatsAppNotify(variant, present, params, token, outcome)

SpecNotify == Init /\ [][NextNotify]_vars

(***************************************************************************)
(* Properties                                                              *)
(***************************************************************************)
\* the payment fields the webhook writes
WebhookFields(d) ==
    <<students[d].payment_id, students[d].payment_status, students[d].payment_method,
      students[d].payment_verified_at, students[d].payment_captured_at>>

\* the payment fields of a completed registration
PaymentFields(d) ==
    <<students[d].payment_id, students[d].payment_method,
      students[d].payment_verified_at, students[d].payment_captured_at,
      students[d].order_amount, students[d].order_currency>>

\* C1: replaying the identical payment-captured event against the same registration
\* creates at most one account and grants the addon credits at most once, and no
\* replay changes the payment fields of the registration once it is completed.
C1_ReplayIdempotent ==
    [][\A d \in DocIds :
          /\ grants'[d] <= 1
          /\ Exists(d) => creations'[students[d].email] <= 1
          /\ Completed(d) => WebhookFields(d)' = WebhookFields(d)]_vars

\* C2: of two concurrent deliveries for the same registration, at most one performs
\* the completing update.
C2_OneDeliveryCompletes ==
    \A c1, c2 \in CallIds :
        (c1 # c2 /\ calls[c1].kind = "webhook" /\ calls[c2].kind = "webhook"
            /\ calls[c1].doc = calls[c2].doc)
        => ~(calls[c1].completed /\ calls[c2].completed)

\* C3: a delivery that resolved to an existing registration leaves it completed and
\* published when it returns or throws, whatever failed downstream.
C3_CompletedDespiteFailure ==
    (last.kind = "webhook" /\ last.found /\ Exists(last.doc))
        => (Completed(last.doc) /\ Published(last.doc))

\* C4: in every reachable state a registration is published if and only if its
\* payment_status is completed.
C4_PublishedIffCompleted ==
    \A d \in DocIds : Exists(d) => (Published(d) <=> Completed(d))

\* C4 witness: a completed, published registration next to a pending, unpublished one
C4_Witness ==
    \E d, e \in DocIds : Completed(d) /\ Published(d) /\ Pending(e) /\ ~Published(e)

\* C5: a registration whose payment_status is completed is never deleted.
C5_CompletedNeverDeleted ==
    [][\A d \in DocIds : Completed(d) => Exists(d)']_vars

\* C6: at most one pending registration exists per email.
C6_OnePendingPerEmail ==
    \A e \in Emails : Cardinality(PendingDocs(e)) <= 1

\* C7: when a successful saveDraftAndCreateOrder that overlapped no other returns, and
\* the previous successful one for the email created prev with no completion since,
\* the only pending registration of the email is the new one and prev is deleted.
C7_DraftDedup ==
    (last.kind = "save" /\ last.res = "ok" /\ ~last.overlap /\ last.prev # 0)
        => (PendingDocs(last.email) = {last.doc} /\ ~Exists(last.prev))

\* C7 witness: the second of two successive successful calls has returned
C7_Witness ==
    /\ last.kind = "save" /\ last.res = "ok" /\ ~last.overlap /\ last.prev # 0
    /\ PendingDocs(last.email) = {last.doc}
    /\ last.prev # last.doc

\* C8: saveDraftAndCreateOrder for an email that has a completed registration is
\* rejected with success:false.
C8_RejectedAfterCompletion ==
    (last.kind = "save" /\ last.hadCompleted) => last.res = "rejected"

\* C9: once a registration is completed, no later operation changes its payment fields.
C9_PaymentFieldsFrozen ==
    [][\A d \in DocIds :
          (Completed(d) /\ Exists(d)') => PaymentFields(d)' = PaymentFields(d)]_vars

\* C10: a delivery reaches the account lookup or the completing update only when its
\* signature was valid.
C10_OnlySignedEvents ==
    \A c \in CallIds :
        (calls[c].kind = "webhook" /\ (calls[c].effects \/ calls[c].completed))
            => calls[c].sig

\* C11: a delivery whose captured amount differs from the order amount stored on the
\* registration does not get as far as the account lookup or the completing update.
C11_AmountMismatchRejected ==
    \A c \in CallIds :
        (calls[c].kind = "webhook" /\ Exists(calls[c].doc)
            /\ calls[c].amount # students[calls[c].doc].order_amount)
        => ~(calls[c].effects \/ calls[c].completed)

\* C12: the order_amount stored on a draft is the priced amount in minor units: for a
\* domestic registration (fee + addon INR price) * 1.18 * 100, for an overseas one
\* (fee + addon USD price) * 100.
C12_OrderAmountTaxed ==
    \A c \in CallIds :
        (calls[c].kind = "save" /\ calls[c].doc # 0 /\ Pending(calls[c].doc))
        => students[calls[c].doc].order_amount =
              IF calls[c].overseas
              THEN (calls[c].fee + calls[c].addon.price) * 100
              ELSE (calls[c].fee + calls[c].addon.priceInr) * 118

\* C13: the gateway order of a draft carries the order_amount and the order_currency
\* stored on the draft.
C13_OrderMatchesDraft ==
    \A d \in DocIds :
        (Exists(d) /\ orders[d].id # 0)
        => (orders[d].amount = students[d].order_amount
            /\ orders[d].currency = students[d].order_currency)

\* C14: a verifyPaymentAndPublish request whose signature is not the HMAC of its order
\* and payment ids is answered 400 and changes no registration.
C14_ForgedSignatureRejected ==
    [][/\ \A c \in DOMAIN calls' : calls'[c].kind = "verify" => calls'[c].sig
       /\ (last'.kind = "verify" /\ ~last'.sig)
            => (last'.status = 400 /\ students' = students)]_vars

\* C14 witness: a forged signature for an existing registration has been rejected
C14_Witness ==
    /\ last.kind = "verify" /\ ~last.sig /\ last.payId # "" /\ last.status = 400
    /\ Exists(last.doc)

C16_ReturnsBeforeMail ==
    (last.kind = "webhook" /\ last.res = "ok" /\ last.found) => ~last.mailed

\* C17: the background notification task never calls publish.
C17_BackgroundNeverPublishes ==
    \A b \in BgIds : bg[b].pc # "publish"

\* C18: sendRegistrationNotifications never throws, and resolves with two booleans.
C18_NotificationsNeverThrow ==
    last.kind = "notify"
        => (last.res = "ok" /\ last.mail \in {"true", "false"} /\ last.wa \in {"true", "false"})

\* C18 witness: the messaging request failed for a student with a phone number, and
\* the service resolved with wa_sent false
C18_Witness ==
    /\ last.kind = "notify" /\ last.res = "ok"
    /\ "phone" \in last.present /\ last.params = "full" /\ last.waOut = "error"
    /\ last.wa = "false"

\* C19: sendZeptoMailBatch never throws, for every recipient list and remote outcome.
C19_MailBatchNeverThrows ==
    last.kind = "mailbatch" => last.res = "ok"

\* C20: the messaging notification reports false when the student has no phone number
\* or no auth token is configured, and true only when the request was sent and
\* answered 2xx.
C20_MessagingFlagHonest ==
    last.kind = "wa"
        => /\ ("phone" \notin last.present \/ ~last.token) => last.wa = "false"
           /\ last.wa = "true" => last.waOut = "2xx"

\* C21: when bulkUpload returns, it has been through every row of the file; total is
\* successful + failed; errors has one entry per failed row, in order, carrying the
\* row's number (its index + 2) and its email as uploaded ("N/A" when it has none).
C21_RowsIsolated ==
    LET FailedRows == {k \in 1..Len(last.seen) : ~last.seen[k].ok}
        ErrorOfRow(k) ==
            [row |-> k + 1,
             email |-> IF last.seen[k].email = "" THEN "N/A" ELSE last.seen[k].email]
    IN  (last.kind = "bulk" /\ last.res = "ok") =>
            /\ Len(last.seen) = last.total
            /\ last.total = last.successful + last.failed
            /\ last.failed = Cardinality(FailedRows)
            /\ Len(last.errors) = last.failed
            /\ \A j \in 1..Len(last.errors) :
                  \E k \in FailedRows :
                     /\ Cardinality({f \in FailedRows : f <= k}) = j
                     /\ last.errors[j] = ErrorOfRow(k)

\* C21 witness: a file of three rows whose second row has no email returns with two
\* rows successful and one error entry for row 3
C21_Witness ==
    /\ last.kind = "bulk" /\ last.res = "ok" /\ last.total = 3
    /\ last.successful = 2 /\ last.failed = 1
    /\ last.errors = <<[row |-> 3, email |-> "N/A"]>>
    /\ last.seen[3].ok

\* C22: a bulk row is upserted by its email: the write of a row whose email has a
\* registration updates that registration and creates none; otherwise it creates exactly
\* one, which is completed from the moment it exists; and when a row is counted as
\* successful its registration is completed and published.
C22_RowUpserted ==
    [][\A c \in CallIds :
          LET call == calls[c]
              after == IF Len(calls') >= c THEN calls'[c] ELSE last'
              Registered(e) == {d \in DocIds : students[d].exists /\ students[d].email = e}
              All == {d \in DocIds : students[d].exists}
              AllAfter == {d \in DocIds : students'[d].exists}
          IN  /\ (call.kind = "bulk" /\ call.pc = "upsert" /\ after.pc = "publish") =>
                    /\ students'[after.doc].exists
                    /\ students'[after.doc].email = call.email
                    /\ students'[after.doc].payment_status = "completed"
                    /\ IF Registered(call.email) # {}
                       THEN after.doc \in Registered(call.email) /\ AllAfter = All
                       ELSE after.doc \notin All /\ AllAfter = All \cup {after.doc}
              /\ (call.kind = "bulk" /\ after.kind = "bulk"
                    /\ after.successful = call.successful + 1) =>
                    /\ students'[call.doc].exists
                    /\ students'[call.doc].email = call.email
                    /\ students'[call.doc].payment_status = "completed"
                    /\ students'[call.doc].publishedAt # 0]_vars

\* C22 witness: the first row "A@x.org" created registration 1, the second row
\* "a@x.org" has updated it, and no other registration exists
C22_Witness ==
    /\ calls # <<>> /\ calls[1].kind = "bulk" /\ calls[1].pc = "publish"
    /\ calls[1].i = 1 /\ calls[1].found /\ calls[1].raw = "a@x.org"
    /\ calls[1].seen = <<[email |-> "A@x.org", ok |-> TRUE]>>
    /\ nextDoc = 2 /\ calls[1].doc = 1
    /\ Completed(1) /\ Published(1)

\* C23: a credit grant posted by webhookHandler or bulkUpload carries 35 credits for
\* the add-on id "credits", 240 for "basic" and 315 for "premium".
C23_TierCredits ==
    \A g \in {calls[c].grant : c \in CallIds} \cup {last.grant} :
        /\ g.type = "credits" => g.credits = 35
        /\ g.type = "basic" => g.credits = 240
        /\ g.type = "premium" => g.credits = 315

\* C23 witness: a delivery has posted the grant of a "credits" add-on
C23_Witness ==
    /\ last.kind = "webhook" /\ last.res = "ok"
    /\ last.grant.type = "credits" /\ last.grant.credits = 35 /\ last.grant.userId # 0

\* C24: no credit grant is posted for a registration whose add-on id is not one of the
\* three tiers.
C24_UnknownTierSkipped ==
    \A g \in {calls[c].grant : c \in CallIds} \cup {last.grant} :
        g # NoGrant => g.type \in Tiers

\* C25: the template a notification task selects is the fixed template of the tier for
\* the add-on ids credits, basic and premium (three different ones), and the default
\* no-add-on template for every other id and for an absent id.
C25_TemplateByTier ==
    \A b \in BgIds :
        bg[b].pc # "send" =>
            bg[b].template =
                CASE bg[b].addon_id = "credits" -> "nac_spacetopia_cre"
                  [] bg[b].addon_id = "basic" -> "nac_spacetopia_protostar"
                  [] bg[b].addon_id = "premium" -> "nac_spacetopia_supernova"
                  [] OTHER -> "nac_spacetopia_no_cre"

\* C26: a credit grant is posted if and only if the registration has an add-on and its
\* email has an account on the platform when provisioning is over: a delivery, and a
\* row, whose registration has an add-on and whose account exists (found or just
\* created) goes on to the grant; the grant step posts the grant; and nothing else does.
C26_GrantIffAddonAndAccount ==
    [][\A c \in CallIds :
          LET call == calls[c]
              after == IF Len(calls') >= c THEN calls'[c] ELSE last'
          IN  /\ (call.kind = "webhook" /\ call.pc = "publish" /\ after # call
                    /\ HasAddon(call.addon) /\ call.email \in accounts)
                  => after.pc = "addons"
              /\ (call.kind = "bulk" /\ call.pc \in {"lookup", "recheck"} /\ after # call
                    /\ after.failed = call.failed /\ after.pc # "create"
                    /\ HasAddon(call.addon) /\ call.email \in accounts)
                  => after.pc = "addons"
              /\ (call.pc = "addons" /\ after # call)
                  => grants'[call.doc] = grants[call.doc] + 1
              /\ grants' # grants
                  => (call.pc = "addons" /\ HasAddon(call.addon) /\ call.email \in accounts)]_vars

\* C27: a call that has just created an account runs the email lookup again, and the
\* id it uses for the grant is the one that lookup reports.
C27_IdRecheckedAfterCreate ==
    [][\A c \in CallIds :
          LET call == calls[c]
              after == IF Len(calls') >= c THEN calls'[c] ELSE last'
          IN  /\ (call.pc = "create" /\ accounts' # accounts) => after.pc = "recheck"
              /\ (call.pc = "recheck" /\ after.pc = "addons")
                  => after.userId = Lookup(call.email).userId]_vars

\* C28: a call reaches the account creation only from a lookup made while its email
\* had no account; a lookup made while the email has an account is never followed by a
\* creation, and the id the call goes on with is the one of the existing account; no
\* account appears except through a creation.
C28_CreateOnlyIfUnregistered ==
    [][\A c \in CallIds :
          LET call == calls[c]
              after == IF Len(calls') >= c THEN calls'[c] ELSE last'
              provisions == call.kind \in {"webhook", "bulk"}
          IN  /\ (provisions /\ call.pc # "create" /\ after.pc = "create")
                  => (call.pc = "lookup" /\ call.email \notin accounts)
              /\ (provisions /\ call.pc = "lookup" /\ call.email \in accounts /\ after # call)
                  => /\ after.pc \in {"mail", "addons", "row", "done"}
                     /\ after.pc \in {"mail", "addons"} => after.userId = UserIdOf(call.email)
                     /\ creations' = creations
              /\ accounts' # accounts => (provisions /\ call.pc = "create")]_vars

\* C28 witness: a delivery for an email that already has an account is at the mail
\* batch with the id of that account, and no account was created
C28_Witness ==
    /\ calls # <<>> /\ calls[1].kind = "webhook" /\ calls[1].pc = "mail"
    /\ calls[1].email \in accounts /\ calls[1].userId = UserIdOf(calls[1].email)
    /\ creations[calls[1].email] = 0

\* C29: a matching payment.captured delivery whose document id resolves to no
\* registration returns success at once: it writes nothing to the store, looks up and
\* creates no account, posts no grant, sends no mail and schedules no notification.
C29_UnknownRegistrationNoOp ==
    [][LET new == IF Len(calls') > Len(calls) THEN calls'[Len(calls')] ELSE last'
       IN  (started' = started + 1 /\ new.kind = "webhook" /\ new.payId # ""
              /\ ~students[new.doc].exists)
           => /\ Len(calls') = Len(calls)
              /\ last'.res = "ok" /\ last'.status = 200
              /\ ~last'.effects /\ ~last'.mailed /\ last'.grant = NoGrant
              /\ UNCHANGED <<students, accounts, orders, grants, creations, bg>>]_vars

\* C29 witness: a matching delivery for a document id without registration has returned
C29_Witness ==
    /\ last.kind = "webhook" /\ last.payId = "pay_1" /\ last.doc = 1
    /\ ~students[1].exists /\ ~last.found /\ last.res = "ok"

\* C30: a delivery that is not a matching payment.captured event (another event, another
\* description, or no description) returns success without throwing, and changes no
\* registration, account, grant or notification task.
C30_NonMatchingIsNoOp ==
    [][(started' = started + 1 /\ Len(calls') = Len(calls)
          /\ last'.kind = "webhook" /\ last'.payId = "")
       => /\ last'.res = "ok"
          /\ UNCHANGED <<students, accounts, orders, grants, creations, bg>>]_vars

\* C31: when the gateway order creation fails, saveDraftAndCreateOrder fails (status
\* 500), and the registration it created is left as it was created: existing, pending,
\* unpublished and without an order.
C31_OrderFailureKeepsDraft ==
    [][(calls' # calls /\ last'.kind = "save" /\ last'.res = "error")
       => /\ last'.status = 500
          /\ students'[last'.doc].exists
          /\ students'[last'.doc].payment_status = "pending"
          /\ students'[last'.doc].publishedAt = 0
          /\ students'[last'.doc].razorpay_order_id = 0
          /\ orders'[last'.doc] = NoOrder
          /\ students' = students]_vars

\* C31 witness: a call whose order creation failed has returned, and its draft is there
C31_Witness ==
    /\ last.kind = "save" /\ last.res = "error" /\ last.doc # 0
    /\ Pending(last.doc) /\ ~Published(last.doc)

\* C32: whatever the outcome of the credit grant, a delivery that reached it returns
\* success and a row that reached it is not counted as failed.
C32_GrantFailureOnlyLogged ==
    [][\A c \in CallIds :
          LET call == calls[c]
              after == IF Len(calls') >= c THEN calls'[c] ELSE last'
          IN  (call.pc = "addons" /\ after # call)
              => /\ call.kind = "webhook" => after.res = "ok"
                 /\ call.kind = "bulk" =>
                       (after.failed = call.failed /\ after.successful = call.successful + 1)]_vars

\* C33: a saveDraftAndCreateOrder request without data, or whose data lacks a required
\* field, ends at once with a 400 error; it never gets past validation, and the step
\* creates or deletes no registration and creates no gateway order.
C33_InvalidDraftRejected ==
    [][/\ \A c \in DOMAIN calls' :
              calls'[c].kind = "save" => calls'[c].present = RequiredFields
       /\ (last'.kind = "save" /\ last'.present # RequiredFields)
              => /\ last'.res = "invalid"
                 /\ last'.status = 400
                 /\ students' = students
                 /\ orders' = orders
                 /\ nextDoc' = nextDoc
                 /\ calls' = calls]_vars

\* an invalid request was refused while a pending draft with an order was in the store
C33_Witness ==
    /\ last.kind = "save" /\ last.res = "invalid" /\ last.present # RequiredFields
    /\ \E d \in DocIds : Pending(d) /\ orders[d] # NoOrder

\* C34: the order_currency of every draft, and the currency of the gateway order created
\* for it, is USD when the registration's overseas flag is set and INR when it is not.
C34_CurrencyByOverseas ==
    \A d \in DocIds :
        students[d].exists =>
            LET currency == IF students[d].is_overseas THEN "USD" ELSE "INR"
            IN  /\ students[d].order_currency = currency
                /\ orders[d] # NoOrder => orders[d].currency = currency

\* an overseas draft with its gateway order stored
C34_Witness ==
    \E d \in DocIds :
        /\ students[d].exists /\ students[d].is_overseas
        /\ students[d].razorpay_order_id # 0
        /\ students[d].order_currency = "USD" /\ orders[d].currency = "USD"

\* C35: a verification with a valid signature that names a draft and carries the add-on
\* the draft was created with passes the amount check, whatever registration fee the
\* draft was created with.
C35_VerifyRecomputesDraftAmount ==
    [][LET new == IF Len(calls') > Len(calls) THEN calls'[Len(calls')] ELSE last'
       IN  (/\ started' = started + 1
            /\ new.kind = "verify" /\ new.found /\ new.sig
            /\ new.addon = students[new.doc].selected_addon)
           => new.res # "mismatch"]_vars

\* C36: the payment_status of a registration only moves from pending to completed: a
\* completed registration stays completed as long as it exists, no registration is ever
\* failed, and a deleted registration does not come back, so each registration is
\* completed at most once, under every interleaving of the handlers and background tasks.
C36_StatusMonotone ==
    [][\A d \in DocIds :
          /\ students'[d].exists => students'[d].payment_status \in {"pending", "completed"}
          /\ (Completed(d) /\ students'[d].exists) => students'[d].payment_status = "completed"
          /\ (~students[d].exists /\ students'[d].exists)
                => (d = nextDoc /\ nextDoc' = nextDoc + 1)]_vars

\* a registration completed by one handler and written again by another
C36_Witness ==
    \E d \in DocIds :
        /\ Completed(d)
        /\ students[d].payment_verified_at # 0 /\ students[d].payment_captured_at # 0
        /\ students[d].payment_verified_at # students[d].payment_captured_at

\* C37: verifyPaymentAndPublish and webhookHandler apply the same transition: when either
\* of them returns success having completed a registration, the registration is completed
\* and published, carries the payment id, the payment method and both payment times, and
\* its owner has a platform account.
C37_SameTransition ==
    [][(last'.kind \in {"verify", "webhook"} /\ last'.completed /\ last'.res = "ok"
          /\ students'[last'.doc].exists)
       => LET rec == students'[last'.doc]
          IN  /\ rec.payment_status = "completed"
              /\ rec.publishedAt # 0
              /\ rec.payment_id # ""
              /\ rec.payment_method # ""
              /\ rec.payment_verified_at # 0
              /\ rec.payment_captured_at # 0
              /\ rec.email \in accounts']_vars

\* C39: a successful verification leaves the registration's selected_addon as it was
\* stored at draft creation, whatever add-on the request carries.
C39_VerifyKeepsAddon ==
    [][(last'.kind = "verify" /\ last'.res = "ok" /\ students[last'.doc].exists)
       => students'[last'.doc].selected_addon = students[last'.doc].selected_addon]_vars

\* C40: a row is counted as failed only before its registration is written (at the
\* validation, or at an upsert that wrote nothing), and a row counted as successful has
\* its registration completed and published.
C40_FailedRowWritesNothing ==
    [][\A c \in CallIds :
          LET call == calls[c]
              after == IF Len(calls') >= c THEN calls'[c] ELSE last'
          IN  (call.kind = "bulk" /\ after.kind = "bulk")
              => /\ after.failed = call.failed + 1 => call.pc \in {"row", "upsert"}
                 /\ after.successful = call.successful + 1
                       => (Completed(call.doc) /\ Published(call.doc))]_vars

====
